---- MODULE Spec2Model ----
(***************************************************************************)
(* A model of the traversal and hashing pipeline of the fileutils          *)
(* repository: walk_tree (findfiles.py and its variant in filestats.py),   *)
(* find_files and the size options of findfiles.main, hash_file and        *)
(* hash_dir (filehasher.py) and find_dupes (filedupes.py).                 *)
(*                                                                         *)
(* A generator is modelled by the stack of its live frames: each frame is  *)
(* one call of walk_tree with its os.scandir iterator.  The file system    *)
(* is a finite tree of entries, fixed during a run; the order in which a   *)
(* scan returns the entries of a directory, and whether an OS call fails,  *)
(* are chosen nondeterministically at each step.                           *)
(***************************************************************************)
EXTENDS Integers, Sequences, FiniteSets, TLC

VARIABLES
    tree,       \* the file system: entry -> [type, link, dot]
    loops,      \* the links of tree that lead back to the top level directory
    data,       \* the content of each file: entry -> sequence of bytes
    cfg,        \* the arguments of the call under study
    mode,       \* the caller of the walk: "walk", "find", "dupes", "hashdir";
                \* or "hash"
    args,       \* findfiles.main: the parsed size options
    status,     \* "args", "start", "running", "filtering", "hashing", "done",
                \* "raised", "config_error"
    stack,      \* live walk_tree frames, root first: [dir, rest]
    exc,        \* the OSError in flight, or NoExc
    yielded,    \* entries walk_tree has yielded, in order
    returned,   \* entries returned by next(scanit), in order, over all frames
    attempted,  \* directories on which os.scandir() was called
    caught,     \* errors caught by an except clause that lets the walk continue
    dropped,    \* errors caught by the is_dir()/is_symlink() clauses
    reported,   \* errors passed to onerror, in order
    nerr,       \* number of OS failures so far
    cur,        \* the entry the caller is working on, or NoEntry
    found,      \* what find_files (paths) or hash_dir (<<path, digest>>)
                \* yielded, in order
    hashes,     \* find_dupes: digest -> paths, in order of discovery
    result,     \* what find_dupes or hash_file returned, or NoResult
    stderr,     \* errors printed to sys.stderr, in order
    hpc,        \* hash_file: "idle" or "reading"
    pos,        \* hash_file: offset of infile
    buffer,     \* hash_file: the bytearray
    fed         \* hash_file: the bytes passed to hasher.update(), in order

walkvars == <<stack, exc, yielded, returned, attempted, caught, dropped, reported, nerr>>
usevars == <<cur, found, hashes, result, stderr>>
hashvars == <<hpc, pos, buffer, fed>>
envvars == <<tree, loops, data, cfg, mode>>
vars == <<envvars, args, status, walkvars, usevars, hashvars>>

(***************************************************************************)
(* Bounds of the model.                                                    *)
(***************************************************************************)
MaxSpecial == 2    \* entries of a tree that are not a plain file or directory
MaxErrors == 2     \* OS failures injected in one run
MaxLen == 2        \* bytes in a file
MaxBuf == 3        \* largest buffer_size passed to hash_file
MaxSize == 2       \* largest size option of findfiles.main
MaxDepth == 2      \* live frames of a walk that follows a link back to the top

(***************************************************************************)
(* The file system.  An entry is the sequence of child indexes leading to  *)
(* it from the top level directory (the empty sequence).  Strings are      *)
(* sequences of characters, so that a name and a path are compared as the  *)
(* program compares them.                                                  *)
(***************************************************************************)
Root == <<>>
Entries == {<<1>>, <<2>>, <<1, 1>>, <<1, 2>>, <<1, 1, 1>>}
RootPath == <<"r">>

Parent(e) == SubSeq(e, 1, Len(e) - 1)
IsUnder(g, d) == Len(g) > Len(d) /\ SubSeq(g, 1, Len(d)) = d

BaseName(e) == IF e[Len(e)] = 1 THEN <<"a">> ELSE <<"b">>

\* DirEntry.name
Name(e) == IF tree[e].dot THEN <<".">> \o BaseName(e) ELSE BaseName(e)

\* DirEntry.path: os.path.join(path, name), from the top level directory down
RECURSIVE PathOf(_)
PathOf(e) == IF e = Root THEN RootPath ELSE PathOf(Parent(e)) \o <<"/">> \o Name(e)

Flavours ==
    { [type |-> "file",  link |-> FALSE, dot |-> FALSE],
      [type |-> "dir",   link |-> FALSE, dot |-> FALSE],
      [type |-> "file",  link |-> FALSE, dot |-> TRUE],
      [type |-> "dir",   link |-> FALSE, dot |-> TRUE],
      [type |-> "file",  link |-> TRUE,  dot |-> FALSE],
      [type |-> "dir",   link |-> TRUE,  dot |-> FALSE],
      [type |-> "other", link |-> FALSE, dot |-> FALSE] }

Plain == [type |-> "file", link |-> FALSE, dot |-> FALSE]
PlainDir == [type |-> "dir", link |-> FALSE, dot |-> FALSE]

\* An entry exists when every directory above it is a directory (or a link to one).
Exists(t, e) == \A k \in 1..(Len(e) - 1) : t[SubSeq(e, 1, k)].type = "dir"

Trees(special) ==
    { t \in [Entries -> Flavours] :
        /\ \A e \in Entries : ~Exists(t, e) => t[e] = Plain
        /\ Cardinality({e \in Entries : t[e] \notin {Plain, PlainDir}}) <= special }

Children(d) == {e \in Entries : Parent(e) = d /\ Exists(tree, e)}

ExcludeChoices == SUBSET {<<"b">>, <<"r", "/", "a", "/", "a">>}

NoExc == [at |-> "none", on |-> Root]
NoEntry == <<0>>
None == -1

RECURSIVE SeqsUpTo(_, _)
SeqsUpTo(S, n) ==
    IF n = 0 THEN {<<>>}
    ELSE LET shorter == SeqsUpTo(S, n - 1)
         IN  shorter \cup {Append(s, b) : s \in shorter, b \in S}

Range(s) == {s[i] : i \in DOMAIN s}
Min(a, b) == IF a < b THEN a ELSE b

\* os.stat(path).st_size
Size(e) == Len(data[e])

(***************************************************************************)
(* walk_tree: the tests made on one entry.                                 *)
(***************************************************************************)
\* findfiles.py:60 / filestats.py:35
SkipDot(e) == ~cfg.dotfiles /\ Head(Name(e)) = "."

SkipExcludedNameOnly(e) == cfg.variant = "findfiles" /\ Name(e) \in cfg.excludes

\* findfiles.py:65 (filestats.py has no excludes)
SkipExcluded(e) ==
    /\ cfg.variant = "findfiles"
    /\ (PathOf(e) \in cfg.excludes \/ Name(e) \in cfg.excludes)

\* entry.is_dir(): follows a link in findfiles.py; in filestats.py only when
\* symlinks is set.  A failed call counts as False (findfiles.py:69-72).
IsDir(e, failed) ==
    /\ ~failed
    /\ tree[e].type = "dir"
    /\ (tree[e].link => (cfg.variant = "findfiles" \/ cfg.symlinks))

\* entry.is_symlink() (findfiles.py:75-78); filestats.py never asks.
IsSymlink(e, failed) == ~failed /\ tree[e].link /\ cfg.variant = "findfiles"

SkipLinkNever(e, failed) == FALSE

\* findfiles.py:80
SkipLink(e, failed) == IsSymlink(e, failed) /\ ~cfg.symlinks

DescendsAlways(e, failed) == IsDir(e, failed)

\* findfiles.py:85 / filestats.py:45
Descends(e, failed) == IsDir(e, failed) /\ cfg.recursive

\* entry.is_file()
IsFile(e) ==
    /\ tree[e].type = "file"
    /\ (tree[e].link => (cfg.variant = "findfiles" \/ cfg.symlinks))

YieldFirst(e) == <<e>> \o yielded

\* findfiles.py:90: the entry goes to the consumer, after those before it
Yield(e) == Append(yielded, e)

\* The directory that os.scandir(entry.path) reads: the entry itself, or for
\* a link that leads back to it the top level directory, whose entries come
\* again under the longer path.
Target(e) == IF e \in loops THEN Root ELSE e

Top == stack[Len(stack)]
Pop == SubSeq(stack, 1, Len(stack) - 1)
SetRest(r) == [stack EXCEPT ![Len(stack)].rest = r]

CanFail == nerr < MaxErrors
Cost(b) == IF b THEN 1 ELSE 0

(***************************************************************************)
(* find_dupes: the result.                                                 *)
(***************************************************************************)
DuplicatesAll(h) == h

\* filedupes.py:60
Duplicates(h) == [k \in {d \in DOMAIN h : Len(h[d]) > 1} |-> h[k]]

\* filedupes.py:55: hashes[digest].append(entry.path) on a defaultdict(list)
Record(h, d, e) ==
    IF d \in DOMAIN h THEN [h EXCEPT ![d] = Append(@, e)] ELSE h @@ (d :> <<e>>)

(***************************************************************************)
(* walk_tree: the steps of the generator.                                  *)
(***************************************************************************)
\* The first next() on the generator: os.scandir(path) of the top level.
Start(fail) ==
    /\ status = "start"
    /\ exc = NoExc
    /\ attempted' = attempted \cup {Root}
    /\ IF fail
       THEN /\ CanFail
            /\ exc' = [at |-> "open", on |-> Root]
            /\ nerr' = nerr + 1
            /\ stack' = stack
       ELSE /\ stack' = <<[dir |-> Root, rest |-> Children(Root)]>>
            /\ UNCHANGED <<exc, nerr>>
    /\ status' = "running"
    /\ UNCHANGED <<envvars, args, yielded, returned, caught, dropped, reported,
                   usevars, hashvars>>

Running == status = "running" /\ exc = NoExc /\ stack # <<>>

\* next(scanit) returns entry e, which is then tested, descended into or
\* yielded.  fd, fs: is_dir(), is_symlink() raise OSError; fo: the call in
\* the try block (os.scandir of the subdirectory, or is_file()) raises.
\* A yield hands the entry to the caller, which works on it before the
\* generator is resumed.  is_symlink() reads what is_dir() has cached
\* when it succeeded, so it fails only where is_dir() has failed.  A walk that
\* follows links round a cycle grows a frame at each turn; the model stops it
\* at MaxDepth frames.
ScanEntry(e, fd, fs, fo) ==
    LET skip == SkipDot(e) \/ SkipExcluded(e)
        skiplink == ~skip /\ SkipLink(e, fs)
        descend == ~skip /\ ~skiplink /\ Descends(e, fd)
        emit == ~skip /\ ~skiplink /\ ~descend /\ ~fo /\ IsFile(e)
        nfail == Cost(fd) + Cost(fs) + Cost(fo)
        rest == SetRest(Top.rest \ {e})
    IN  /\ Running
        /\ e \in Top.rest
        /\ skip => (~fd /\ ~fs)
        /\ fs => fd
        /\ (descend /\ e \in loops) => Len(stack) < MaxDepth
        /\ (skip \/ skiplink) => ~fo
        /\ cfg.variant = "filestats" => ~fs
        /\ nerr + nfail <= MaxErrors
        /\ nerr' = nerr + nfail
        /\ returned' = Append(returned, e)
        /\ dropped' = dropped
                        \cup (IF fd THEN {[at |-> "is_dir", on |-> e]} ELSE {})
                        \cup (IF fs THEN {[at |-> "is_symlink", on |-> e]} ELSE {})
        /\ attempted' = IF descend THEN attempted \cup {e} ELSE attempted
        /\ exc' = IF fo THEN [at |-> IF descend THEN "open" ELSE "is_file", on |-> e]
                  ELSE exc
        /\ stack' = IF descend /\ ~fo
                    THEN Append(rest, [dir |-> Target(e), rest |-> Children(Target(e))])
                    ELSE rest
        /\ yielded' = IF emit THEN Yield(e) ELSE yielded
        /\ status' = IF emit /\ mode = "find" THEN "filtering"
                     ELSE IF emit /\ mode \in {"dupes", "hashdir"} THEN "hashing"
                     ELSE status
        /\ cur' = IF emit /\ mode # "walk" THEN e ELSE cur
        /\ UNCHANGED <<envvars, args, caught, reported, found, hashes, result, stderr,
                       hashvars>>

\* next(scanit) raises StopIteration: the frame's walk_tree returns.  When it
\* is the top level frame the caller's loop ends, and find_dupes returns.
ScanEnd ==
    /\ Running
    /\ Top.rest = {}
    /\ stack' = Pop
    /\ status' = IF Len(stack) = 1 THEN "done" ELSE status
    /\ result' = IF Len(stack) = 1 /\ mode = "dupes" THEN Duplicates(hashes) ELSE result
    /\ UNCHANGED <<envvars, args, exc, yielded, returned, attempted, caught, dropped,
                   reported, nerr, cur, found, hashes, stderr, hashvars>>

\* next(scanit) raises OSError.  In findfiles.py the call is outside the try
\* block that catches OSError (lines 54-57), so the error leaves the frame; in
\* filestats.py it is inside (lines 30-32, 52), and the iterator, closed by the
\* error, is exhausted from then on.
ScanFail ==
    /\ Running
    /\ CanFail
    /\ nerr' = nerr + 1
    /\ exc' = [at |-> "next", on |-> Top.dir]
    /\ stack' = IF cfg.variant = "findfiles" THEN Pop ELSE SetRest({})
    /\ UNCHANGED <<envvars, args, status, yielded, returned, attempted, caught,
                   dropped, reported, usevars, hashvars>>

ReportNothing(e) == reported

\* findfiles.py:94: onerror(e)
Report(e) == Append(reported, e)

CatchAbort == Pop

\* findfiles.py:92-94: the frame goes on with its loop after the handler
CatchResume == stack

\* What the except clause of the frame on top does with the error in flight:
\* findfiles.py:92-94 calls onerror if there is one; a handler that raises
\* sends the error on to the frame below.  filestats.py:52-54 prints it.
Catch ==
    /\ status = "running"
    /\ exc # NoExc
    /\ stack # <<>>
    /\ IF cfg.variant = "filestats"
       THEN /\ stderr' = Append(stderr, exc)
            /\ caught' = caught \cup {exc}
            /\ exc' = NoExc
            /\ stack' = stack
            /\ reported' = reported
       ELSE /\ stderr' = stderr
            /\ CASE cfg.onerror = "none" ->
                      /\ caught' = caught \cup {exc}
                      /\ exc' = NoExc
                      /\ stack' = CatchResume
                      /\ reported' = reported
                 [] cfg.onerror = "collect" ->
                      /\ reported' = Report(exc)
                      /\ caught' = caught \cup {exc}
                      /\ exc' = NoExc
                      /\ stack' = CatchResume
                 [] cfg.onerror = "raise" ->
                      /\ reported' = Report(exc)
                      /\ stack' = Pop
                      /\ UNCHANGED <<exc, caught>>
    /\ UNCHANGED <<envvars, args, status, yielded, returned, attempted, dropped, nerr,
                   cur, found, hashes, result, hashvars>>

\* No frame is left to catch the error: it reaches the caller of walk_tree.
\* findfiles.main prints it (lines 251-253).
Escape ==
    /\ status = "running"
    /\ exc # NoExc
    /\ stack = <<>>
    /\ status' = "raised"
    /\ stderr' = IF mode = "find" THEN Append(stderr, exc) ELSE stderr
    /\ UNCHANGED <<envvars, args, walkvars, cur, found, hashes, result, hashvars>>

(***************************************************************************)
(* hash_file.                                                              *)
(***************************************************************************)
Supported == {"sha3_256", "md5"}
DEFAULT_ALGORITHM == "sha3_256"
DefaultBufferSize == 262144

\* filehasher.py:37-38: a falsy algorithm means the default
Algorithm == IF cfg.algorithm = "" THEN DEFAULT_ALGORITHM ELSE cfg.algorithm

\* find_dupes and hash_dir call hash_file(entry.path, algorithm): the default
\* buffer_size
BufferSize ==
    IF mode \in {"dupes", "hashdir"} THEN DefaultBufferSize ELSE cfg.buffer_size

RECURSIVE Weigh(_)
Weigh(s) == IF s = <<>> THEN 0 ELSE Weigh(SubSeq(s, 1, Len(s) - 1)) + Len(s) * (s[Len(s)] + 1)

\* hasher.hexdigest(): some function of the algorithm and of the bytes fed, in
\* order.  It is not one to one: <<>> and <<0, 1>> collide.
HexDigest(alg, bytes) == <<alg, Weigh(bytes) % 5>>

UpdateWhole(buf, size) == buf

\* filehasher.py:53: hasher.update(view[:size])
Update(buf, size) == SubSeq(buf, 1, size)

RaiseUncaught(err) ==
    /\ exc' = err
    /\ status' = "raised"
    /\ UNCHANGED <<stderr, caught, cur>>

\* An exception leaves hash_file.  find_dupes catches an OSError, prints it
\* and goes on with the next entry (filedupes.py:56-57); any other exception,
\* and any exception when hash_file is called on its own or by hash_dir, which
\* has no except clause (filehasher.py:69-70), reaches the caller.
Raise(err) ==
    IF mode = "dupes" /\ err.at \in {"hash_open", "hash_read"}
    THEN /\ stderr' = Append(stderr, err)
         /\ caught' = caught \cup {err}
         /\ status' = "running"
         /\ cur' = NoEntry
         /\ exc' = exc
    ELSE /\ exc' = err
         /\ status' = "raised"
         /\ UNCHANGED <<stderr, caught, cur>>

\* filehasher.py:40-47: open(path, 'rb'), hashlib.new(algorithm),
\* bytearray(buffer_size).  Only the first MaxLen cells of the buffer can ever
\* be written, so the model keeps no more of them.
HashOpen(fail) ==
    /\ status = "hashing"
    /\ hpc = "idle"
    /\ fail => CanFail
    /\ nerr' = nerr + Cost(fail)
    /\ LET err == IF fail THEN [at |-> "hash_open", on |-> cur]
                  ELSE IF Algorithm \notin Supported THEN [at |-> "algorithm", on |-> cur]
                  ELSE IF BufferSize < 0 THEN [at |-> "buffer_size", on |-> cur]
                  ELSE NoExc
       IN  IF err = NoExc
           THEN /\ hpc' = "reading"
                /\ pos' = 0
                /\ buffer' = [i \in 1..Min(BufferSize, MaxLen) |-> 0]
                /\ fed' = <<>>
                /\ UNCHANGED <<status, exc, stderr, caught, cur>>
           ELSE /\ Raise(err)
                /\ UNCHANGED hashvars
    /\ UNCHANGED <<envvars, args, stack, yielded, returned, attempted, dropped, reported,
                   found, hashes, result>>

\* filehasher.py:50-53: readinto() puts n >= 1 bytes at the start of the buffer
\* (fewer than it holds when the read is short) and they are fed to the hasher.
HashRead(n) ==
    /\ status = "hashing"
    /\ hpc = "reading"
    /\ n \in 1..Min(BufferSize, Len(data[cur]) - pos)
    /\ LET buf == [i \in 1..Len(buffer) |-> IF i <= n THEN data[cur][pos + i] ELSE buffer[i]]
       IN  /\ buffer' = buf
           /\ fed' = fed \o Update(buf, n)
    /\ pos' = pos + n
    /\ UNCHANGED <<envvars, args, status, walkvars, usevars, hpc>>

\* filehasher.py:50: readinto() raises OSError
HashReadFail ==
    /\ status = "hashing"
    /\ hpc = "reading"
    /\ CanFail
    /\ nerr' = nerr + 1
    /\ Raise([at |-> "hash_read", on |-> cur])
    /\ hpc' = "idle"
    /\ UNCHANGED <<envvars, args, stack, yielded, returned, attempted, dropped, reported,
                   found, hashes, result, pos, buffer, fed>>

\* filehasher.py:50-55: readinto() returns 0, at the end of the file or because
\* the buffer is empty; hash_file returns the digest.  find_dupes files the
\* path under it (filedupes.py:55); hash_dir yields the pair (filehasher.py:70).
HashEof ==
    /\ status = "hashing"
    /\ hpc = "reading"
    /\ (pos = Len(data[cur]) \/ BufferSize = 0)
    /\ hpc' = "idle"
    /\ LET digest == HexDigest(Algorithm, fed)
       IN  CASE mode = "dupes" ->
                    /\ hashes' = Record(hashes, digest, cur)
                    /\ cur' = NoEntry
                    /\ status' = "running"
                    /\ UNCHANGED <<result, found>>
             [] mode = "hashdir" ->
                    /\ found' = Append(found, <<cur, digest>>)
                    /\ cur' = NoEntry
                    /\ status' = "running"
                    /\ UNCHANGED <<result, hashes>>
             [] OTHER ->
                    /\ result' = digest
                    /\ status' = "done"
                    /\ UNCHANGED <<hashes, cur, found>>
    /\ UNCHANGED <<envvars, args, walkvars, stderr, pos, buffer, fed>>

(***************************************************************************)
(* find_files and the size options of findfiles.main.                      *)
(***************************************************************************)
\* A compiled pattern is modelled by one literal character: search() succeeds
\* when the character occurs in the path.
NoPattern == <<>>
Search(pattern, path) == \E i \in DOMAIN path : <<path[i]>> = pattern

\* findfiles.py:141
PatternRejects(e) == cfg.pattern # NoPattern /\ ~Search(cfg.pattern, PathOf(e))

SizeRejectsExclusive(e) ==
    \/ (args.minsize # None /\ args.minsize >= Size(e))
    \/ (args.maxsize # None /\ args.maxsize < Size(e))

\* findfiles.py:145-148
SizeRejects(e) ==
    \/ (args.minsize # None /\ args.minsize > Size(e))
    \/ (args.maxsize # None /\ args.maxsize < Size(e))

\* findfiles.py:227: "if args.exactsize:" is false for None and for 0
ExactSizeGiven == args.exactsize # None /\ args.exactsize # 0

\* findfiles.py:226-230
ParseArgs ==
    /\ status = "args"
    /\ IF ExactSizeGiven
       THEN IF args.minsize # None \/ args.maxsize # None
            THEN /\ status' = "config_error"
                 /\ args' = args
            ELSE /\ status' = "start"
                 /\ args' = [args EXCEPT !.minsize = args.exactsize,
                                         !.maxsize = args.exactsize]
       ELSE /\ status' = "start"
            /\ args' = args
    /\ UNCHANGED <<envvars, walkvars, usevars, hashvars>>

\* findfiles.py:140-151: the body of the loop of find_files, on the entry that
\* walk_tree has just yielded.
FilterEntry ==
    /\ status = "filtering"
    /\ found' = IF PatternRejects(cur) \/ SizeRejects(cur) THEN found
                ELSE Append(found, cur)
    /\ cur' = NoEntry
    /\ status' = "running"
    /\ UNCHANGED <<envvars, args, walkvars, hashes, result, stderr, hashvars>>

\* findfiles.py:145-148: entry.stat() raises OSError.  It is called, for an
\* entry the pattern lets through, when minsize or maxsize is given, and no
\* except clause of find_files or of walk_tree is around it: the error reaches
\* the caller of find_files (findfiles.main prints it, lines 251-253).
FilterFail ==
    /\ status = "filtering"
    /\ ~PatternRejects(cur)
    /\ (args.minsize # None \/ args.maxsize # None)
    /\ CanFail
    /\ nerr' = nerr + 1
    /\ exc' = [at |-> "stat", on |-> cur]
    /\ status' = "raised"
    /\ stderr' = Append(stderr, [at |-> "stat", on |-> cur])
    /\ UNCHANGED <<envvars, args, stack, yielded, returned, attempted, caught, dropped,
                   reported, cur, found, hashes, result, hashvars>>

(***************************************************************************)
(* Specifications.                                                         *)
(***************************************************************************)
NoArgs == [exactsize |-> None, minsize |-> None, maxsize |-> None]
NoData == [e \in Entries |-> <<>>]

InitVars ==
    /\ stack = <<>>
    /\ exc = NoExc
    /\ yielded = <<>>
    /\ returned = <<>>
    /\ attempted = {}
    /\ caught = {}
    /\ dropped = {}
    /\ reported = <<>>
    /\ nerr = 0
    /\ found = <<>>
    /\ hashes = <<>>
    /\ result = <<>>
    /\ stderr = <<>>
    /\ hpc = "idle"
    /\ pos = 0
    /\ buffer = <<>>
    /\ fed = <<>>

\* The contents of the files of tree t, drawn from C.
DataOver(t, C) ==
    { d \in [Entries -> C \cup {<<>>}] :
        \A e \in Entries : (~Exists(t, e) \/ t[e].type # "file") => d[e] = <<>> }

\* walk_tree of findfiles.py on a tree where no call fails.
InitWalk ==
    /\ mode = "walk"
    /\ status = "start"
    /\ tree \in Trees(MaxSpecial)
    /\ data = NoData
    /\ cfg \in [variant : {"findfiles"}, dotfiles : BOOLEAN, symlinks : BOOLEAN,
                recursive : BOOLEAN, excludes : ExcludeChoices, onerror : {"none"},
                algorithm : {""}, buffer_size : {0}, pattern : {NoPattern},
                argv : {NoArgs}]
    /\ loops = {}
    /\ args = cfg.argv
    /\ cur = NoEntry
    /\ InitVars

NextWalk ==
    \/ Start(FALSE)
    \/ \E e \in Entries : ScanEntry(e, FALSE, FALSE, FALSE)
    \/ ScanEnd

SpecWalk == InitWalk /\ [][NextWalk]_vars

\* walk_tree of both files on a tree where OS calls may fail.
InitErr ==
    /\ mode = "walk"
    /\ status = "start"
    /\ tree \in Trees(1)
    /\ data = NoData
    /\ cfg \in [variant : {"findfiles", "filestats"}, dotfiles : {FALSE},
                symlinks : {FALSE}, recursive : BOOLEAN, excludes : {{}},
                onerror : {"none", "collect", "raise"},
                algorithm : {""}, buffer_size : {0}, pattern : {NoPattern},
                argv : {NoArgs}]
    /\ (cfg.variant = "filestats" => cfg.onerror = "none")
    /\ loops = {}
    /\ args = cfg.argv
    /\ cur = NoEntry
    /\ InitVars

NextErr ==
    \/ \E f \in BOOLEAN : Start(f)
    \/ \E e \in Entries, fd, fs, fo \in BOOLEAN : ScanEntry(e, fd, fs, fo)
    \/ ScanEnd
    \/ ScanFail
    \/ Catch
    \/ Escape

SpecErr == InitErr /\ [][NextErr]_vars

\* hash_file on one file.
InitHash ==
    /\ mode = "hash"
    /\ status = "hashing"
    /\ tree = [e \in Entries |-> Plain]
    /\ \E c \in SeqsUpTo({0, 1}, MaxLen) : data = [NoData EXCEPT ![<<1>>] = c]
    /\ cfg \in [variant : {"findfiles"}, dotfiles : {FALSE}, symlinks : {FALSE},
                recursive : {TRUE}, excludes : {{}}, onerror : {"none"},
                algorithm : {"", "md5", "sha1024"}, buffer_size : (-1)..MaxBuf,
                pattern : {NoPattern}, argv : {NoArgs}]
    /\ loops = {}
    /\ args = cfg.argv
    /\ cur = <<1>>
    /\ InitVars

NextHash ==
    \/ \E f \in BOOLEAN : HashOpen(f)
    \/ \E n \in 1..MaxBuf : HashRead(n)
    \/ HashReadFail
    \/ HashEof

SpecHash == InitHash /\ [][NextHash]_vars

\* find_dupes, which walks with the defaults of onerror and recursive.  The
\* failures drawn are those of the scans, of is_file() and of hash_file.
InitDupes ==
    /\ mode = "dupes"
    /\ status = "start"
    /\ tree \in Trees(0)
    /\ data \in DataOver(tree, {<<0>>, <<0, 1>>})
    /\ cfg \in [variant : {"findfiles"}, dotfiles : {FALSE}, symlinks : {FALSE},
                recursive : {TRUE}, excludes : {{}}, onerror : {"none"},
                algorithm : {"", "sha1024"}, buffer_size : {0},
                pattern : {NoPattern}, argv : {NoArgs}]
    /\ loops = {}
    /\ args = cfg.argv
    /\ cur = NoEntry
    /\ InitVars

NextDupes ==
    \/ \E f \in BOOLEAN : Start(f)
    \/ \E e \in Entries, fo \in BOOLEAN : ScanEntry(e, FALSE, FALSE, fo)
    \/ ScanEnd
    \/ ScanFail
    \/ Catch
    \/ Escape
    \/ \E f \in BOOLEAN : HashOpen(f)
    \/ \E n \in 1..MaxLen : HashRead(n)
    \/ HashReadFail
    \/ HashEof

SpecDupes == InitDupes /\ [][NextDupes]_vars

\* hash_dir, which walks with the defaults of dotfiles, symlinks, excludes and
\* onerror.  The failures drawn are those of hash_file.
InitHashDir ==
    /\ mode = "hashdir"
    /\ status = "start"
    /\ tree \in Trees(1)
    /\ data \in DataOver(tree, {<<0>>, <<0, 1>>})
    /\ cfg \in [variant : {"findfiles"}, dotfiles : {FALSE}, symlinks : {FALSE},
                recursive : BOOLEAN, excludes : {{}}, onerror : {"none"},
                algorithm : {"", "sha1024"}, buffer_size : {0},
                pattern : {NoPattern}, argv : {NoArgs}]
    /\ loops = {}
    /\ args = cfg.argv
    /\ cur = NoEntry
    /\ InitVars

NextHashDir ==
    \/ Start(FALSE)
    \/ \E e \in Entries : ScanEntry(e, FALSE, FALSE, FALSE)
    \/ ScanEnd
    \/ \E f \in BOOLEAN : HashOpen(f)
    \/ \E n \in 1..MaxLen : HashRead(n)
    \/ HashReadFail
    \/ HashEof

SpecHashDir == InitHashDir /\ [][NextHashDir]_vars

\* findfiles.main: the size options, then find_files.
SizeOptions == {None} \cup 0..MaxSize

InitFind ==
    /\ mode = "find"
    /\ status = "args"
    /\ tree \in Trees(0)
    /\ data \in DataOver(tree, {<<0>>, <<0, 0>>})
    /\ cfg \in [variant : {"findfiles"}, dotfiles : {FALSE}, symlinks : {FALSE},
                recursive : {TRUE}, excludes : {{}}, onerror : {"none"},
                algorithm : {""}, buffer_size : {0},
                pattern : {NoPattern, <<"b">>},
                argv : [exactsize : SizeOptions, minsize : SizeOptions,
                        maxsize : SizeOptions]]
    /\ loops = {}
    /\ args = cfg.argv
    /\ cur = NoEntry
    /\ InitVars

NextFind ==
    \/ ParseArgs
    \/ Start(FALSE)
    \/ \E e \in Entries : ScanEntry(e, FALSE, FALSE, FALSE)
    \/ ScanEnd
    \/ FilterEntry

SpecFind == InitFind /\ [][NextFind]_vars

\* find_files on a tree where OS calls may fail, with no handler or with one
\* that returns.
InitFindErr ==
    /\ mode = "find"
    /\ status = "start"
    /\ tree \in Trees(0)
    /\ data \in DataOver(tree, {<<0>>, <<0, 0>>})
    /\ cfg \in [variant : {"findfiles"}, dotfiles : {FALSE}, symlinks : {FALSE},
                recursive : {TRUE}, excludes : {{}}, onerror : {"none", "collect"},
                algorithm : {""}, buffer_size : {0}, pattern : {NoPattern},
                argv : [exactsize : {None}, minsize : {None, 2},
                        maxsize : {None, 1}]]
    /\ loops = {}
    /\ args = cfg.argv
    /\ cur = NoEntry
    /\ InitVars

NextFindErr ==
    \/ \E f \in BOOLEAN : Start(f)
    \/ \E e \in Entries, fd, fo \in BOOLEAN : ScanEntry(e, fd, FALSE, fo)
    \/ ScanEnd
    \/ ScanFail
    \/ Catch
    \/ Escape
    \/ FilterEntry
    \/ FilterFail

SpecFindErr == InitFindErr /\ [][NextFindErr]_vars

\* walk_tree where OS calls may fail, on a tree with no link back to the top
\* level directory and, when symlinks is False, on a tree that holds one.  The
\* consumer of the generator asks for the next entry until the generator is
\* exhausted or raises, and every call made on the way returns or raises: a
\* step that can be taken is taken.
LinkDir == [type |-> "dir", link |-> TRUE, dot |-> FALSE]

InitTerm ==
    /\ mode = "walk"
    /\ status = "start"
    /\ tree \in Trees(1)
    /\ \A e \in Entries : tree[e] \in {Plain, PlainDir, LinkDir}
    /\ loops \in SUBSET {e \in Entries : Exists(tree, e) /\ tree[e] = LinkDir}
    /\ \A e \in loops, g \in Entries : IsUnder(g, e) => tree[g] = Plain
    /\ data = NoData
    /\ cfg \in [variant : {"findfiles"}, dotfiles : {FALSE}, symlinks : BOOLEAN,
                recursive : {TRUE}, excludes : {{}}, onerror : {"none", "raise"},
                algorithm : {""}, buffer_size : {0}, pattern : {NoPattern},
                argv : {NoArgs}]
    /\ cfg.symlinks => loops = {}
    /\ args = cfg.argv
    /\ cur = NoEntry
    /\ InitVars

NextTerm ==
    \/ \E f \in BOOLEAN : Start(f)
    \/ \E e \in Entries, fd, fs, fo \in BOOLEAN : ScanEntry(e, fd, fs, fo)
    \/ ScanEnd
    \/ ScanFail
    \/ Catch
    \/ Escape

SpecTerm == InitTerm /\ [][NextTerm]_vars /\ WF_vars(NextTerm)

\* walk_tree with symlinks True on a tree that holds a link back to the top
\* level directory, where no call fails.
InitCycle ==
    /\ mode = "walk"
    /\ status = "start"
    /\ tree \in Trees(1)
    /\ loops = {e \in Entries : Exists(tree, e) /\ tree[e] = LinkDir}
    /\ loops # {}
    /\ \A e \in loops, g \in Entries : IsUnder(g, e) => tree[g] = Plain
    /\ data = NoData
    /\ cfg \in [variant : {"findfiles"}, dotfiles : {FALSE}, symlinks : {TRUE},
                recursive : {TRUE}, excludes : {{}}, onerror : {"none"},
                algorithm : {""}, buffer_size : {0}, pattern : {NoPattern},
                argv : {NoArgs}]
    /\ args = cfg.argv
    /\ cur = NoEntry
    /\ InitVars

SpecCycle == InitCycle /\ [][NextWalk]_vars /\ WF_vars(NextWalk)

(***************************************************************************)
(* The claims.                                                             *)
(***************************************************************************)
NoDup(s) == \A i, j \in DOMAIN s : s[i] = s[j] => i = j
Pos(s, x) == CHOOSE i \in DOMAIN s : s[i] = x
Prefixes(e) == {SubSeq(e, 1, k) : k \in 1..Len(e)}
CommonLen(f, g) ==
    Cardinality({k \in 1..Min(Len(f), Len(g)) : SubSeq(f, 1, k) = SubSeq(g, 1, k)})

\* The skip rules as the specification words them.
ClaimSkipped(e) ==
    \/ (tree[e].dot /\ ~cfg.dotfiles)
    \/ Name(e) \in cfg.excludes
    \/ PathOf(e) \in cfg.excludes
    \/ (tree[e].link /\ ~cfg.symlinks)

ReachableFiles ==
    { e \in Entries : /\ Exists(tree, e)
                      /\ tree[e].type = "file"
                      /\ \A a \in Prefixes(e) : ~ClaimSkipped(a) }

TopLevelFiles == {e \in Children(Root) : tree[e].type = "file"}

\* C1: when no call fails, a recursive walk yields each file exactly once, and
\* yields exactly the files that are not skipped and lie under no skipped
\* directory; it never yields an entry that is not a file.
C1_RecursiveWalkYieldsUnskippedFiles ==
    /\ \A i \in DOMAIN yielded : tree[yielded[i]].type = "file"
    /\ (status = "done" /\ cfg.recursive) =>
          (NoDup(yielded) /\ Range(yielded) = ReachableFiles)

\* A finished recursive walk that yielded a file three levels down and left out
\* a file that is not itself skipped but lies under a skipped directory.
C1_Witness ==
    /\ status = "done"
    /\ cfg.recursive
    /\ Len(yielded) >= 2
    /\ \E e \in Entries : /\ Exists(tree, e)
                          /\ tree[e].type = "file"
                          /\ ~ClaimSkipped(e)
                          /\ e \notin Range(yielded)

\* C2 as stated, for the default excludes, dotfiles and symlinks: a walk that
\* is not recursive yields exactly the files directly inside the top level
\* directory and scans no subdirectory.
C2_FlatWalkYieldsAllTopLevelFiles ==
    (/\ status = "done"
     /\ ~cfg.recursive
     /\ cfg.excludes = {}
     /\ ~cfg.dotfiles
     /\ ~cfg.symlinks) =>
        (Range(yielded) = TopLevelFiles /\ attempted = {Root})

\* C2 amended: a walk that is not recursive yields exactly the files directly
\* inside the top level directory that are not skipped, each once; no yielded
\* entry has another parent and no subdirectory is ever scanned.
C2_FlatWalkYieldsUnskippedTopLevelFiles ==
    ~cfg.recursive =>
        /\ \A i \in DOMAIN yielded : Parent(yielded[i]) = Root
        /\ attempted \subseteq {Root}
        /\ status = "done" =>
              /\ NoDup(yielded)
              /\ Range(yielded) = {e \in TopLevelFiles : ~ClaimSkipped(e)}

\* A finished flat walk that yielded the top level file and passed over a
\* subdirectory holding a file.
C2_Witness ==
    /\ status = "done"
    /\ ~cfg.recursive
    /\ Len(yielded) = 1
    /\ tree[<<1>>].type = "dir"
    /\ tree[<<1, 2>>].type = "file"
    /\ ~ClaimSkipped(<<1>>)

\* C3 as stated: the files of a directory are all yielded before any file of
\* any of its subdirectories.
C3_OwnFilesBeforeSubdirectories ==
    \A i, j \in DOMAIN yielded :
        (Len(yielded[j]) > Len(yielded[i]) /\ IsUnder(yielded[j], Parent(yielded[i])))
            => i < j

\* C3 amended: entries are yielded depth first in the order of the scans: of two
\* yielded files, the one yielded first is the one that lies at or under the
\* entry which the scan of their common directory returned first.
C3_YieldOrderIsScanOrder ==
    \A i, j \in DOMAIN yielded :
        i < j =>
            LET k == CommonLen(yielded[i], yielded[j])
            IN  /\ k < Len(yielded[i])
                /\ k < Len(yielded[j])
                /\ Pos(returned, SubSeq(yielded[i], 1, k + 1))
                     < Pos(returned, SubSeq(yielded[j], 1, k + 1))

\* A file of a subdirectory was yielded before a file of the directory itself.
C3_Witness ==
    \E i, j \in DOMAIN yielded :
        /\ i < j
        /\ Len(yielded[i]) > Len(yielded[j])
        /\ IsUnder(yielded[i], Parent(yielded[j]))

ScanFailed(s) ==
    [at |-> "open", on |-> s] \in caught \/ [at |-> "next", on |-> s] \in caught

\* C4: with no handler or one that returns, the failure of the scan of a
\* subdirectory S of P is caught and the walk goes on: unless the scan of P
\* fails itself, every other entry of P is returned, yielded when it is a file
\* that is not skipped, and scanned when it is a directory that is not skipped;
\* the only errors that reach the caller are those of the scan of the top
\* level directory.
C4_SiblingsSurviveFailedSubdirectory ==
    cfg.onerror # "raise" =>
        /\ status = "raised" => (exc.on = Root /\ exc.at \in {"open", "next"})
        /\ status = "done" =>
              \A s \in Entries :
                  (ScanFailed(s) /\ [at |-> "next", on |-> Parent(s)] \notin caught) =>
                      \A e \in Children(Parent(s)) \ {s} :
                          /\ e \in Range(returned)
                          /\ (/\ ~ClaimSkipped(e)
                              /\ tree[e].type = "file"
                              /\ [at |-> "is_file", on |-> e] \notin caught)
                                 => e \in Range(yielded)
                          /\ (/\ ~ClaimSkipped(e)
                              /\ tree[e].type = "dir"
                              /\ cfg.recursive
                              /\ [at |-> "is_dir", on |-> e] \notin dropped)
                                 => e \in attempted

\* A finished walk in which a subdirectory failed to scan and a file that the
\* scan of its parent returned after it was yielded.
C4_Witness ==
    /\ status = "done"
    /\ cfg.onerror # "raise"
    /\ \E s \in Entries :
          /\ ScanFailed(s)
          /\ \E e \in Children(Parent(s)) \ {s} :
                /\ e \in Range(yielded)
                /\ Pos(returned, s) < Pos(returned, e)

Observable == Range(reported) \cup Range(stderr)

\* C5 as stated: every error that walk_tree swallows to go on is observable
\* afterwards, through the handler or the error output, in every configuration.
C5_NoSwallowedErrorIsLost ==
    cfg.variant = "findfiles" => \A x \in caught : x \in Observable

\* C5 amended: an error caught by the except clause of walk_tree is passed to
\* onerror when a handler was given, and leaves no trace when none was; an
\* error of is_dir() or is_symlink() is never passed on.
C5_SwallowedErrorsReachHandlerIfAny ==
    cfg.variant = "findfiles" =>
        /\ cfg.onerror = "collect" => caught = Range(reported)
        /\ cfg.onerror = "none" => Observable = {}
        /\ dropped \cap Observable = {}

\* A finished walk whose handler was given a swallowed error.
C5_Witness ==
    /\ cfg.variant = "findfiles"
    /\ cfg.onerror = "collect"
    /\ status = "done"
    /\ caught # {}
    /\ dropped # {}

HashErrors == {x \in caught : x.at \in {"hash_open", "hash_read"}}
Hashed == {e \in Range(yielded) : \A x \in HashErrors : x.on # e}
DigestOf(e) == HexDigest(Algorithm, data[e])
InGroup(e) == \E k \in DOMAIN result : e \in Range(result[k])

\* C6: in what find_dupes returns, every group has two paths or more, each
\* path of a group has the digest that is the group's key, and a file that
\* was hashed is in a group exactly when another hashed file has its digest.
C6_GroupsAreDuplicates ==
    (mode = "dupes" /\ status = "done") =>
        /\ \A k \in DOMAIN result :
              /\ Len(result[k]) >= 2
              /\ NoDup(result[k])
              /\ \A i \in DOMAIN result[k] : DigestOf(result[k][i]) = k
        /\ \A e \in Hashed :
              InGroup(e) <=> \E f \in Hashed \ {e} : DigestOf(f) = DigestOf(e)
        /\ \A e \in Entries : InGroup(e) => e \in Hashed

\* find_dupes returned one group while another hashed file is in no group.
C6_Witness ==
    /\ mode = "dupes"
    /\ status = "done"
    /\ Cardinality(DOMAIN result) = 1
    /\ \E e \in Hashed : ~InGroup(e)

RECURSIVE GroupAll(_)
GroupAll(s) ==
    IF s = <<>> THEN <<>>
    ELSE LET e == s[Len(s)]
         IN  Record(GroupAll(SubSeq(s, 1, Len(s) - 1)), DigestOf(e), e)

WithoutFailed == LET ok(e) == e \in Hashed IN SelectSeq(yielded, ok)

\* C7: a file whose hashing fails with a read error is in no group, the error
\* is printed, the error never ends find_dupes, and the result is the one
\* the walk would give without the failing files.
C7_HashFailureSkipsOneFile ==
    mode = "dupes" =>
        /\ status = "raised" => exc.at \notin {"hash_open", "hash_read"}
        /\ HashErrors \subseteq Range(stderr)
        /\ status = "done" =>
              /\ \A x \in HashErrors : ~InGroup(x.on)
              /\ result = [k \in {d \in DOMAIN GroupAll(WithoutFailed) :
                                     Len(GroupAll(WithoutFailed)[d]) >= 2}
                             |-> GroupAll(WithoutFailed)[k]]

\* find_dupes returned a group although the hashing of a file yielded before
\* the members of the group had failed.
C7_Witness ==
    /\ mode = "dupes"
    /\ status = "done"
    /\ \E x \in HashErrors, k \in DOMAIN result :
          \A i \in DOMAIN result[k] : Pos(yielded, x.on) < Pos(yielded, result[k][i])

\* C8: whatever buffer_size hash_file accepts, the bytes fed to the hasher when
\* it returns are the content of the file, in order.
C8_FedBytesAreTheContent ==
    (mode = "hash" /\ status = "done") => fed = data[cur]

\* C8 for the buffer sizes of one byte and more: the bytes fed are the content.
C8_FedBytesAreTheContentIfBufferHoldsAByte ==
    (mode = "hash" /\ status = "done" /\ cfg.buffer_size >= 1) => fed = data[cur]

\* The size filter as the specification words it.
InBounds(e) ==
    /\ (args.minsize # None => args.minsize <= Size(e))
    /\ (args.maxsize # None => Size(e) <= args.maxsize)

Matches(e) == cfg.pattern = NoPattern \/ Search(cfg.pattern, PathOf(e))

\* C9: find_files yields, in the order of the walk, exactly the entries that
\* match the pattern and whose size lies within the bounds, both inclusive.
C9_SizeBoundsInclusive ==
    (mode = "find" /\ status \in {"running", "done"}) =>
        found = LET keep(e) == Matches(e) /\ InBounds(e) IN SelectSeq(yielded, keep)

\* With minsize < maxsize, find_files has kept a file of minsize bytes and one
\* of maxsize bytes and left out one of minsize - 1 bytes.
C9_Witness ==
    /\ mode = "find"
    /\ status = "done"
    /\ args.minsize # None
    /\ args.minsize < args.maxsize
    /\ \E e \in Range(found) : Size(e) = args.minsize
    /\ \E e \in Range(found) : Size(e) = args.maxsize
    /\ \E e \in Range(yielded) \ Range(found) : Size(e) = args.minsize - 1

\* C10: an exact size given with minsize or maxsize is a configuration error,
\* raised before the walk; given alone, only files of that size are found.
C10_ExactSizeExcludesBounds ==
    (mode = "find" /\ status # "args" /\ cfg.argv.exactsize # None) =>
        IF cfg.argv.minsize # None \/ cfg.argv.maxsize # None
        THEN status = "config_error"
        ELSE status = "done" =>
                found = LET keep(e) == Matches(e) /\ Size(e) = cfg.argv.exactsize
                        IN  SelectSeq(yielded, keep)

\* C10 for the exact sizes of one byte and more.
C10_PositiveExactSizeExcludesBounds ==
    cfg.argv.exactsize # 0 => C10_ExactSizeExcludesBounds

\* The files a walk with no failing scan yields.
WalkFiles ==
    IF cfg.recursive THEN ReachableFiles ELSE {e \in TopLevelFiles : ~ClaimSkipped(e)}

\* The files for which hash_dir has yielded a pair.
Paired == {found[i][1] : i \in DOMAIN found}

\* C11: when hash_dir has ended on a read failure of one file, every other
\* file of the walk, before and after the failing one, has its pair.
C11_ReadFailureSparesOtherFiles ==
    (mode = "hashdir" /\ status = "raised" /\ exc.at \in {"hash_open", "hash_read"}) =>
        (WalkFiles \ {exc.on}) \subseteq Paired

\* C12: find_dupes called with an algorithm outside the supported set scans no
\* directory, is handed no file and returns no result.
C12_UnsupportedAlgorithmFailsBeforeTraversal ==
    (mode = "dupes" /\ Algorithm \notin Supported) =>
        /\ attempted = {}
        /\ yielded = <<>>
        /\ status # "done"

\* The last part of C12 alone: find_dupes with an unsupported algorithm never
\* returns a result.
C12_UnsupportedAlgorithmNeverReturns ==
    (mode = "dupes" /\ Algorithm \notin Supported) => status # "done"

\* C13: the only OS error that reaches the caller of find_files, and of the
\* walk_tree under it, is the failure to open the top level directory.
C13_PerEntryErrorsStayInside ==
    (mode = "find" /\ status = "raised") => exc = [at |-> "open", on |-> Root]

\* The part of C13 that is about the status calls and the opening of a
\* subdirectory: none of these errors reaches the caller.
C13_StatusErrorsStayInside ==
    (mode = "find" /\ status = "raised") =>
        \/ exc = [at |-> "open", on |-> Root]
        \/ exc = [at |-> "next", on |-> Root]
        \/ exc.at = "stat"

\* The part of C13 that is about a failing step of a scan.
C13_ScanStepErrorsStayInside ==
    (mode = "find" /\ status = "raised") => exc.at # "next"

\* The part of C13 that is about the size lookup.
C13_StatErrorsStayInside ==
    (mode = "find" /\ status = "raised") => exc.at # "stat"

\* C14: with a handler that raises the error it is given, once an error was
\* reported it stays in flight until it reaches the caller of the top level
\* walk, the walk does not end normally, and the handler was called once.
C14_StrictAbortReportsOnce ==
    (cfg.onerror = "raise" /\ reported # <<>>) =>
        /\ exc = reported[1]
        /\ status \in {"running", "raised"}
        /\ Len(reported) = 1

\* C14 without the count: the reported error stays in flight, every call of
\* the handler is for that error, and when it has reached the caller the
\* handler was called once by each frame the error went through.
C14_StrictAbortEndsTheWalk ==
    (cfg.onerror = "raise" /\ reported # <<>>) =>
        /\ exc = reported[1]
        /\ status \in {"running", "raised"}
        /\ \A i \in DOMAIN reported : reported[i] = exc
        /\ status = "raised" => Len(reported) = Len(exc.on)

\* C14, no further entry is yielded: no step taken after a report adds to
\* what the walk has yielded.
C14_NoYieldAfterReport ==
    [][(cfg.onerror = "raise" /\ reported # <<>>) => yielded' = yielded]_vars

\* A strict walk that has ended on an error of the third level.
C14_DeepAbort ==
    /\ cfg.onerror = "raise"
    /\ status = "raised"
    /\ Len(reported) = 3
    /\ yielded # <<>>

Ended == status \in {"done", "raised"}

\* C15: on a tree with no link back to the top, and on any tree when symlinks
\* is False, the walk ends, by exhaustion or by an error that reaches the
\* caller, whatever calls fail; when symlinks is False no scan is ever made of
\* a link.
C15_WalkTerminates ==
    (loops = {} \/ ~cfg.symlinks) =>
        /\ <>Ended
        /\ [](~cfg.symlinks => \A e \in attempted \ {Root} : ~tree[e].link)

\* What C15 leaves out: a walk with symlinks True on a tree holding a link back
\* to the top ends as well.  It does not, under SpecCycle.
C15_FollowedCycleEnds == <>Ended

\* A walk with symlinks False that has come to its end on a tree holding a
\* link back to the top, after a failure and a yield.
C15_Witness ==
    /\ status = "done"
    /\ ~cfg.symlinks
    /\ loops # {}
    /\ nerr > 0
    /\ yielded # <<>>
    /\ loops \subseteq Range(returned)

\* With symlinks True on a tree holding a link back to the top, the walk has
\* gone round the cycle up to the depth the model allows (SpecCycle).
C15_FollowedCycle ==
    /\ cfg.symlinks
    /\ loops # {}
    /\ Len(stack) = MaxDepth

Spec == SpecWalk
====
